---------------------------- MODULE Spec2Model ----------------------------
(***************************************************************************)
(* Height-map pipeline of the point-cloud densifier (src/unnamed/part_000, *)
(* main) and the vertex-value normaliser                                   *)
(* (src/apps/mesh_tools/normalize_mesh_values.cpp, main).                  *)
(*                                                                         *)
(* Lengths and heights are integers counted in quarter units: a            *)
(* resolution of 0.5 is res = 2, the default resolution 1.0 is res = 4.    *)
(* All the values used are exactly representable floats, so the float      *)
(* arithmetic of the source is exact on them.                              *)
(***************************************************************************)
EXTENDS Integers, Sequences, FiniteSets, Bags, TLC

VARIABLES
    pc,            \* position of main in the pipeline
    width,         \* int width  (part_000:200)
    height,        \* int height (part_000:201)
    hmap,          \* mve::FloatImage hmap: linear buffer, index x + y * width
    tmp,           \* the pass-local output image tmp (<< >> outside a pass)
    holes,         \* bool holes (part_000:242)
    passes,        \* number of hole filling passes started (saturating observer)
    ground_level,  \* float ground_level (part_000:278)
    nextRow,       \* next unclaimed iteration of the running omp parallel for
    wrow,          \* per thread: << >> when idle, <<y>> while it holds row y
    wq,            \* per thread: the samples its row still has to append
    res,           \* args.resolution (quarter units)
    fuse,          \* args.fuse
    cover,         \* the cloud seen through kd_tree.find_nn (see Near)
    sverts,        \* scloud->get_vertices()
    snormals,      \* scloud->get_vertex_normals()
    verts,         \* cloud->get_vertices(), as a set of points <<x, y, z>>
    todo,          \* the points the height map loop has not reached yet
    in_mesh,       \* args.in_mesh of normalize_mesh_values
    arg_meshes,    \* args.meshes
    files,         \* what load_ply_mesh finds under each file name
    meshes_to_load,
    it,            \* position of the iterator in meshes_to_load
    cerr,          \* what has been written to std::cerr
    values,        \* the gathered values, sorted
    out_mesh       \* the mesh written by save_ply_mesh

filterVars == <<width, height, hmap, tmp, holes, passes, ground_level>>
cloudVars == <<verts, todo>>
meshVars == <<in_mesh, arg_meshes, files, meshes_to_load, it, cerr, values, out_mesh>>
sampleVars == <<wq, res, fuse, cover, sverts, snormals, cloudVars, meshVars>>
vars == <<pc, filterVars, nextRow, wrow, sampleVars>>

-----------------------------------------------------------------------------
(* Bounds of the model *)

\* Heights of the input points range over 0..MaxZ (quarter units).
MaxZ == 2
\* Number of OpenMP threads of a parallel region.
NumThreads == 2
\* Size of the larger grid of the hole filling runs.
GridW == 5
GridH == 5
\* Hole filling passes counted by the observer variable passes.
MaxPasses == 3

(* Program constants *)

\* constexpr float lowest = std::numeric_limits<float>::lowest(): the
\* sentinel, below every height.
lowest == -1
\* std::numeric_limits<float>::max(), above every height.
FltMax == 1000

Heights == 0..MaxZ
Threads == 1..NumThreads

-----------------------------------------------------------------------------
(* Images *)

\* mve::FloatImage::at(x, y, 0) on a one-channel image of width w.
At(img, w, x, y) == img[x + y * w]

\* mve::FloatImage::create(width, height, 1): a zero-filled buffer.
CreateImage(w, h) == [i \in 0..(w * h - 1) |-> 0]

\* The border test of the median and hole filling loops.
IsBorder(w, h, x, y) == y = 0 \/ y = h - 1 \/ x = 0 \/ x = w - 1

\* patch(img, x, y, ptr): (*ptr)[1 + j][1 + i] = img->at(x + j, y + i, 0).
Patch(img, w, x, y) ==
    [a \in 0..2, b \in 0..2 |-> At(img, w, x + a - 1, y + b - 1)]

\* The patch read as float[9]: element 3 * a + b is heights[a][b].
Flat(p) == [k \in 1..9 |-> p[(k - 1) \div 3, (k - 1) % 3]]

\* Position of element i of s in ascending order, ties kept in input order.
Rank(s, i) ==
    Cardinality({j \in DOMAIN s : s[j] < s[i] \/ (s[j] = s[i] /\ j <= i)})

\* std::sort on a float range: the elements in ascending order.
Sort(s) == [k \in 1..Len(s) |-> s[CHOOSE i \in DOMAIN s : Rank(s, i) = k]]

\* std::remove(first, last, v): the elements different from v, in order.
Remove(s, v) == SelectSeq(s, LAMBDA e : e # v)

-----------------------------------------------------------------------------
(* Height map creation, part_000:188-218 *)

\* Largest planar coordinate of the input points (quarter units).
MaxXY == 2
\* Points of the cloud besides the two that span its bounding box.
MaxFree == 2

MinOf(S) == CHOOSE v \in S : \A u \in S : v <= u
MaxOf(S) == CHOOSE v \in S : \A u \in S : v >= u

\* aabb.min[j] and aabb.max[j] over the vertices (j = 1, 2, 3).
AabbMin(V, j) == MinOf({p[j] : p \in V})
AabbMax(V, j) == MaxOf({p[j] : p \in V})

\* volume(aabb): zero when an extent is not positive.
Volume(V) ==
    IF \E j \in 1..3 : AabbMax(V, j) - AabbMin(V, j) <= 0 THEN 0
    ELSE (AabbMax(V, 1) - AabbMin(V, 1)) * (AabbMax(V, 2) - AabbMin(V, 2))
         * (AabbMax(V, 3) - AabbMin(V, 3))

\* int width = (aabb.max[0] - aabb.min[0]) / r + 1.0f, truncated (j = 1),
\* int height likewise (j = 2).
GridSize(V, r, j) == ((AabbMax(V, j) - AabbMin(V, j)) \div r) + 1

\* int x = (vertex[0] - aabb.min[0]) / r + r / 2.0f + 0.5f, truncated: with
\* d and r in quarter units this is (8 d + r^2 + 4 r) / (8 r), truncated.
CellIndex(d, r) == (8 * d + r * r + 4 * r) \div (8 * r)

\* The element of the buffer that hmap->at(x, y, 0) addresses for point p.
Slot(p, V, r) ==
    CellIndex(p[1] - AabbMin(V, 1), r)
    + CellIndex(p[2] - AabbMin(V, 2), r) * GridSize(V, r, 1)

MergeLast(z, h) == h

\* float z = hmap->at(x, y, 0); if (z > height) continue; hmap->at(x, y, 0) = height;
Merge(z, h) == IF z > h THEN z ELSE h

Coords == 0..MaxXY
\* The points of the clouds considered, and the two that span every cloud.
PointUniverse == Coords \X {0, MaxXY} \X Heights
Anchors == {<<0, 0, 0>>, <<MaxXY, MaxXY, MaxZ>>}
RECURSIVE SubsetsUpTo(_, _)
SubsetsUpTo(S, k) ==
    IF k = 0 THEN {{}}
    ELSE LET T == SubsetsUpTo(S, k - 1) IN T \cup {t \cup {p} : t \in T, p \in S}
Clouds == {Anchors \cup F : F \in SubsetsUpTo(PointUniverse, MaxFree)}
\* args.resolution: 0.25, 0.5 and the default 1.0.
RasterResolutions == {1, 2, 4}

-----------------------------------------------------------------------------
(* normalize_mesh_values, apps/mesh_tools/normalize_mesh_values.cpp *)

\* Vertices of a mesh file, and the largest vertex value in one.
MaxVerts == 2
MaxValue == 1

\* conf.no_value = -1.0f
NoValue == -1
\* conf.eps = 0.0f
Eps == 0

Names == {"in.ply", "ref.ply"}
\* std::map iterates its keys in ascending order.
NameOrder == <<"in.ply", "ref.ply">>

\* A null mve::TriangleMesh::Ptr, and a file load_ply_mesh throws on.
NoMesh == [readable |-> FALSE, nverts |-> 0, vertex_values |-> << >>]

\* A PLY file has a value for every vertex or no value property at all.
VertexValues == {NoValue} \cup (0..MaxValue)
PlyFiles ==
    {NoMesh} \cup
    UNION {{[readable |-> TRUE, nverts |-> n, vertex_values |-> v] :
                v \in {<< >>} \cup [1..n -> VertexValues]} : n \in 0..MaxVerts}

\* -m absent: conf.meshes = <<conf.in_mesh>>; -m given: the listed names.
MeshLists(n) ==
    {<<n>>} \cup {<<a>> : a \in Names} \cup {<<a, b>> : a \in Names, b \in Names}

\* mesh->has_vertex_values()
HasVertexValues(m) == m.nverts > 0 /\ Len(m.vertex_values) = m.nverts

\* The keys of meshes_to_load in iteration order.
Keys == SelectSeq(NameOrder, LAMBDA n : n \in DOMAIN meshes_to_load)

\* Lines 124-133: the values the gathering loop keeps from one mesh.
KeptValues(m) == SelectSeq(m.vertex_values, LAMBDA v : ~(v # NoValue))

RECURSIVE Gather(_, _)
Gather(list, i) ==
    IF i > Len(list) THEN << >>
    ELSE KeptValues(meshes_to_load[list[i]]) \o Gather(list, i + 1)

\* Lines 150-165 with clamp = false: the new value of one vertex, the
\* quotient (value - min) / delta kept as the pair of its terms.
NormalizedValue(v, min, max) ==
    IF v = NoValue THEN <<v, 1>>
    ELSE IF v >= min /\ v <= max THEN <<v - min, max - min>>
    ELSE <<NoValue, 1>>

NormalizedMesh(m, min, max) ==
    [m EXCEPT !.vertex_values =
        [i \in 1..Len(m.vertex_values) |-> NormalizedValue(m.vertex_values[i], min, max)]]

\* The tool's variables while another program runs.
MeshIdle ==
    /\ in_mesh = ""
    /\ arg_meshes = << >>
    /\ files = << >>
    /\ meshes_to_load = << >>
    /\ it = 0
    /\ cerr = ""
    /\ values = << >>
    /\ out_mesh = NoMesh

-----------------------------------------------------------------------------
(* Median filter, part_000:220-239 *)

\* heights[4] of the sorted patch; lowest on the border.
MedianCell(img, w, h, x, y) ==
    IF IsBorder(w, h, x, y) THEN lowest
    ELSE Sort(Flat(Patch(img, w, x, y)))[5]

MedianImage(img, w, h) ==
    [i \in 0..(w * h - 1) |-> MedianCell(img, w, h, i % w, i \div w)]

-----------------------------------------------------------------------------
(* Hole filling, part_000:241-275 *)

\* The valid heights of the patch around a hole.
ValidNeighbours(img, w, x, y) == Remove(Flat(Patch(img, w, x, y)), lowest)

FillValueMax(img, w, x, y) ==
    LET kept == ValidNeighbours(img, w, x, y)
        n == Len(kept)
    IN  IF n >= 3 THEN Sort(kept)[n] ELSE lowest

\* The value written for an interior cell that holds lowest.
FillValue(img, w, x, y) ==
    LET kept == ValidNeighbours(img, w, x, y)
        n == Len(kept)
    IN  IF n >= 3 THEN Sort(kept)[(n \div 2) + 1] ELSE lowest

FillCellSkipBorder(img, w, h, x, y) ==
    IF IsBorder(w, h, x, y) THEN 0
    ELSE IF At(img, w, x, y) # lowest THEN At(img, w, x, y)
    ELSE FillValue(img, w, x, y)

\* The value written to tmp for cell (x, y).
FillCell(img, w, h, x, y) ==
    IF IsBorder(w, h, x, y) THEN lowest
    ELSE IF At(img, w, x, y) # lowest THEN At(img, w, x, y)
    ELSE FillValue(img, w, x, y)

\* Whether cell (x, y) takes the branch that executes holes = true.
LeavesHole(img, w, h, x, y) ==
    /\ ~IsBorder(w, h, x, y)
    /\ At(img, w, x, y) = lowest
    /\ Len(ValidNeighbours(img, w, x, y)) < 3

RowLeavesHole(img, w, h, y) == \E x \in 0..(w - 1) : LeavesHole(img, w, h, x, y)

FlagAfterRowOverwrite(flag, img, w, h, y) == RowLeavesHole(img, w, h, y)

\* The flag after one thread has run the inner x loop of row y.
FlagAfterRow(flag, img, w, h, y) == flag \/ RowLeavesHole(img, w, h, y)

\* tmp after one thread has run the inner x loop of row y.
WriteRow(out, img, w, h, y) ==
    [i \in DOMAIN out |->
        IF i \div w = y THEN FillCell(img, w, h, i % w, y) ELSE out[i]]

-----------------------------------------------------------------------------
(* Ground level, part_000:277-295 *)

ValidValues(img) == {img[i] : i \in DOMAIN img} \ {lowest}

\* The min-reduction over the valid cells, starting from FLT_MAX.
GroundLevel(img) ==
    LET vs == ValidValues(img) \cup {FltMax}
    IN  CHOOSE v \in vs : \A u \in vs : v <= u

NormalizeImage(img, g) ==
    [i \in DOMAIN img |-> IF img[i] # lowest THEN img[i] - g ELSE 0]

-----------------------------------------------------------------------------
(* Input rasters of the filter stages *)

Plus(cx, cy) ==
    {<<cx, cy>>, <<cx - 1, cy>>, <<cx + 1, cy>>, <<cx, cy - 1>>, <<cx, cy + 1>>}

\* A height map as the rasterizer leaves it: value a on the plus-shaped
\* cell group around (cx, cy), value b in the rows before it and value d
\* elsewhere.
Raster(w, h, cx, cy, a, b, d) ==
    [i \in 0..(w * h - 1) |->
        IF <<i % w, i \div w>> \in Plus(cx, cy) THEN a
        ELSE IF i \div w < cy THEN b ELSE d]

CellValues == Heights \cup {lowest}

\* Centres of the plus-shaped group: the first interior row and the diagonal.
Centres(w, h) ==
    {c \in (1..(w - 2)) \X (1..(h - 2)) : c[2] = 1 \/ c[2] = c[1]}

Rasters(w, h) ==
    {Raster(w, h, c[1], c[2], a, b, d) :
        c \in Centres(w, h),
        a \in CellValues, b \in CellValues, d \in CellValues}
    \ {[i \in 0..(w * h - 1) |-> lowest]}

FillDims == {<<3, 3>>, <<GridW, GridH>>}

-----------------------------------------------------------------------------
(* The filter stages as a state machine *)

InitFill ==
    /\ pc = "median"
    /\ \E dim \in FillDims :
        /\ width = dim[1]
        /\ height = dim[2]
        /\ hmap \in Rasters(dim[1], dim[2])
    /\ tmp = << >>
    /\ holes = FALSE
    /\ passes = 0
    /\ ground_level = FltMax
    /\ nextRow = 0
    /\ wrow = [t \in Threads |-> << >>]
    /\ wq = [t \in Threads |-> << >>]
    /\ res = 4
    /\ fuse = FALSE
    /\ cover = lowest
    /\ sverts = << >>
    /\ snormals = << >>
    /\ MeshIdle
    /\ verts = {}
    /\ todo = {}

\* part_000:220-242: the median pass, the swap, and bool holes = true.
MedianFilter ==
    /\ pc = "median"
    /\ hmap' = MedianImage(hmap, width, height)
    /\ holes' = TRUE
    /\ pc' = "fill_loop"
    /\ UNCHANGED <<width, height, tmp, passes, ground_level, nextRow, wrow, sampleVars>>

\* part_000:243-246: while (holes) { holes = false; tmp = create(...)
FillBegin ==
    /\ pc = "fill_loop"
    /\ holes
    /\ holes' = FALSE
    /\ tmp' = CreateImage(width, height)
    /\ nextRow' = 0
    /\ passes' = IF passes < MaxPasses THEN passes + 1 ELSE passes
    /\ pc' = "fill"
    /\ UNCHANGED <<width, height, hmap, ground_level, wrow, sampleVars>>

\* part_000:248-249: schedule(dynamic) hands the next row to an idle thread.
FillClaim(t) ==
    /\ pc = "fill"
    /\ wrow[t] = << >>
    /\ nextRow < height
    /\ wrow' = [wrow EXCEPT ![t] = <<nextRow>>]
    /\ nextRow' = nextRow + 1
    /\ UNCHANGED <<pc, width, height, hmap, tmp, holes, passes, ground_level, sampleVars>>

\* part_000:250-271: the thread runs the x loop of its row.
FillRow(t) ==
    /\ pc = "fill"
    /\ wrow[t] # << >>
    /\ tmp' = WriteRow(tmp, hmap, width, height, wrow[t][1])
    /\ holes' = FlagAfterRow(holes, hmap, width, height, wrow[t][1])
    /\ wrow' = [wrow EXCEPT ![t] = << >>]
    /\ UNCHANGED <<pc, width, height, hmap, passes, ground_level, nextRow, sampleVars>>

\* part_000:272-275: the barrier ending the parallel for, then hmap.swap(tmp).
FillSwap ==
    /\ pc = "fill"
    /\ nextRow = height
    /\ \A t \in Threads : wrow[t] = << >>
    /\ hmap' = tmp
    /\ tmp' = << >>
    /\ pc' = "fill_loop"
    /\ UNCHANGED <<width, height, holes, passes, ground_level, nextRow, wrow, sampleVars>>

\* part_000:243, 277-295: the loop is left, the ground level is taken and
\* the height map normalized.
Normalize ==
    /\ pc = "fill_loop"
    /\ ~holes
    /\ ground_level' = GroundLevel(hmap)
    /\ hmap' = NormalizeImage(hmap, GroundLevel(hmap))
    /\ pc' = "resample"
    /\ UNCHANGED <<width, height, tmp, holes, passes, nextRow, wrow, sampleVars>>

NextFill ==
    \/ MedianFilter
    \/ FillBegin
    \/ \E t \in Threads : FillClaim(t)
    \/ \E t \in Threads : FillRow(t)
    \/ FillSwap
    \/ Normalize

SpecFill == InitFill /\ [][NextFill]_vars

\* Every thread of the team keeps running and main is never suspended.
FairFill == SpecFill /\ WF_vars(NextFill)

-----------------------------------------------------------------------------
(* Discontinuity resampling, part_000:308-370 *)

\* Cells within Margin cells of a border are skipped (y <= 1, y >= height - 2).
Margin == 2
\* Rows of the resampling runs that hold processed cells.
ProcRows == 2
ResW == 2 * Margin + 1
ResH == 2 * Margin + ProcRows
\* args.resolution: 0.25 and 0.5.
Resolutions == {1, 2}

Skipped(w, h, x, y) ==
    y <= Margin - 1 \/ y >= h - Margin \/ x <= Margin - 1 \/ x >= w - Margin

Max(a, b) == IF a >= b THEN a ELSE b

Rdx(p) == -p[0, 1] + p[1, 1]
Rdy(p) == -p[1, 0] + p[1, 1]
Fdx(p) == -p[1, 1] + p[2, 1]
Fdy(p) == -p[1, 1] + p[1, 2]

MagnitudeFlipped(p) == Max(Max(-Rdx(p), Fdx(p)), Max(-Rdy(p), Fdy(p)))

\* float m = std::max(std::max(rdx, -fdx), std::max(rdy, -fdy))
Magnitude(p) == Max(Max(Rdx(p), -Fdx(p)), Max(Rdy(p), -Fdy(p)))

Gx(p) == -p[0, 0] + p[2, 0] + 2 * (-p[0, 1] + p[2, 1]) - p[0, 2] + p[2, 2]
Gy(p) == -p[0, 0] + p[0, 2] + 2 * (-p[1, 0] + p[1, 2]) - p[2, 0] + p[2, 2]

\* Normals are kept by their direction before the division by the norm:
\* Up is (0, 0, 1), Gradient is normalize(-gx, -gy, 0) and Blend is
\* normalize((0, 0, 1) + normalize(-gx, -gy, 0)).
Up == [kind |-> "up", g |-> <<0, 0>>]
Gradient(p) == [kind |-> "gradient", g |-> <<-Gx(p), -Gy(p)>>]
Blend(p) == [kind |-> "blend", g |-> <<-Gx(p), -Gy(p)>>]

\* px = (x - r / 2) * r + aabb.min[0], counted in 1/32 units for a cloud
\* whose bounding box starts at the origin.
Planar(x, r) == 8 * x * r - r * r

\* if (fdx > 0.0f && rdx < 0.0f && fdy > 0.0f && rdy < 0.0f) continue;
Bowl(p) == Fdx(p) > 0 /\ Rdx(p) < 0 /\ Fdy(p) > 0 /\ Rdy(p) < 0

\* kd_tree.find_nn(vertex, nullptr, r): the clouds considered have a point
\* within r of a wall vertex exactly at the elevations up to cov.
Near(vertex, cov) == vertex[3] <= cov

WallStepsShort(m, r) == (m \div r) - 1

\* Iterations of for (int i = 1; i <= m / r; ++i), for m > r > 0.
WallSteps(m, r) == m \div r

WallVertex(p, x, y, r, g, i) ==
    <<Planar(x, r), Planar(y, r), g + p[1, 1] - i * r>>

\* The iterations of the wall loop that reach the concavity test and are
\* skipped by it.
BowlSkips(p, x, y, r, g, f, cov) ==
    IF Magnitude(p) <= r THEN {}
    ELSE {i \in 1..WallSteps(Magnitude(p), r) :
            /\ ~(f /\ Near(WallVertex(p, x, y, r, g, i), cov))
            /\ Bowl(p)}

\* The iterations of the wall loop that append a sample.
WallEmits(p, x, y, r, g, f, cov) ==
    {i \in 1..WallSteps(Magnitude(p), r) :
        /\ ~(f /\ Near(WallVertex(p, x, y, r, g, i), cov))
        /\ ~Bowl(p)}

RECURSIVE WallSamples(_, _, _, _, _, _, _, _)
\* The samples appended by iterations i.. of the wall loop, in order.
WallSamples(p, x, y, r, g, f, cov, i) ==
    IF i > WallSteps(Magnitude(p), r) THEN << >>
    ELSE (IF i \in WallEmits(p, x, y, r, g, f, cov)
          THEN <<[pos |-> WallVertex(p, x, y, r, g, i), normal |-> Gradient(p)]>>
          ELSE << >>)
         \o WallSamples(p, x, y, r, g, f, cov, i + 1)

FlatSampleNoGround(p, x, y, r, g) ==
    [pos |-> <<Planar(x, r), Planar(y, r), p[1, 1]>>, normal |-> Up]

\* sverts.emplace_back(px, py, heights[1][1] + ground_level) with
\* snormals.emplace_back(0, 0, 1).
FlatSample(p, x, y, r, g) ==
    [pos |-> <<Planar(x, r), Planar(y, r), p[1, 1] + g>>, normal |-> Up]

SurfaceSample(p, x, y, r, g) ==
    [pos |-> <<Planar(x, r), Planar(y, r), p[1, 1] + g>>, normal |-> Blend(p)]

\* The samples one iteration of the x loop appends for cell (x, y), in order.
CellSamples(img, w, h, x, y, r, g, f, cov) ==
    IF Skipped(w, h, x, y) THEN << >>
    ELSE LET p == Patch(img, w, x, y)
         IN  IF Magnitude(p) <= r
             THEN (IF ~f THEN <<FlatSample(p, x, y, r, g)>> ELSE << >>)
             ELSE <<SurfaceSample(p, x, y, r, g)>>
                  \o WallSamples(p, x, y, r, g, f, cov, 1)

RECURSIVE RowSamples(_, _, _, _, _, _, _, _, _)
\* The samples the x loop of row y appends from column x on, in order.
RowSamples(img, w, h, x, y, r, g, f, cov) ==
    IF x >= w THEN << >>
    ELSE CellSamples(img, w, h, x, y, r, g, f, cov)
         \o RowSamples(img, w, h, x + 1, y, r, g, f, cov)

AppendLost(list, v) ==
    IF list = << >> THEN <<v>> ELSE [list EXCEPT ![Len(list)] = v]

\* std::vector::emplace_back / push_back inside #pragma omp critical.
CriticalAppend(list, v) == Append(list, v)

-----------------------------------------------------------------------------
(* The hole filling loop as a function, for the inputs of the resampler *)

PassImage(img, w, h) ==
    [i \in 0..(w * h - 1) |-> FillCell(img, w, h, i % w, i \div w)]

PassLeavesHole(img, w, h) == \E y \in 0..(h - 1) : RowLeavesHole(img, w, h, y)

RECURSIVE FillLoop(_, _, _, _)
\* The image left by while (holes); << >> if n passes do not end the loop
\* or a pass that leaves a hole changes nothing (the loop then never ends).
FillLoop(img, w, h, n) ==
    LET out == PassImage(img, w, h)
    IN  IF ~PassLeavesHole(img, w, h) THEN out
        ELSE IF n <= 1 \/ out = img THEN << >>
        ELSE FillLoop(out, w, h, n - 1)

\* The height maps the hole filler hands on, for the rasters considered.
FilledImages(w, h) ==
    {FillLoop(med, w, h, MaxPasses) :
        med \in {MedianImage(img, w, h) : img \in Rasters(w, h)}} \ {<< >>}

-----------------------------------------------------------------------------
(* The resampling stage as a state machine *)

InitResample ==
    /\ pc = "fill_loop"
    /\ width = ResW
    /\ height = ResH
    /\ hmap \in FilledImages(ResW, ResH)
    /\ tmp = << >>
    /\ holes = FALSE
    /\ passes = 1
    /\ ground_level = FltMax
    /\ nextRow = 0
    /\ wrow = [t \in Threads |-> << >>]
    /\ wq = [t \in Threads |-> << >>]
    /\ res \in Resolutions
    /\ fuse \in BOOLEAN
    /\ cover \in (IF fuse THEN CellValues ELSE {lowest})
    /\ sverts = << >>
    /\ snormals = << >>
    /\ MeshIdle
    /\ verts = {}
    /\ todo = {}

\* part_000:309-310: schedule(dynamic) hands the next row to an idle thread,
\* which runs its x loop up to the first critical section.
ResampleClaim(t) ==
    /\ pc = "resample"
    /\ wrow[t] = << >>
    /\ nextRow < height
    /\ LET q == RowSamples(hmap, width, height, 0, nextRow, res,
                           ground_level, fuse, cover)
       IN  /\ wq' = [wq EXCEPT ![t] = q]
           /\ wrow' = [wrow EXCEPT ![t] = IF q = << >> THEN << >> ELSE <<nextRow>>]
    /\ nextRow' = nextRow + 1
    /\ UNCHANGED <<pc, filterVars, res, fuse, cover, sverts, snormals, cloudVars, meshVars>>

\* part_000:340-344, 349-353, 363-367: one critical section; the thread
\* then runs on to its next critical section or to the end of its row.
ResampleAppend(t) ==
    /\ pc = "resample"
    /\ wrow[t] # << >>
    /\ sverts' = CriticalAppend(sverts, Head(wq[t]).pos)
    /\ snormals' = CriticalAppend(snormals, Head(wq[t]).normal)
    /\ wq' = [wq EXCEPT ![t] = Tail(wq[t])]
    /\ wrow' = [wrow EXCEPT ![t] = IF Tail(wq[t]) = << >> THEN << >> ELSE wrow[t]]
    /\ UNCHANGED <<pc, filterVars, nextRow, res, fuse, cover, cloudVars, meshVars>>

\* part_000:370-373: the barrier ending the parallel for; hmap.reset().
ResampleJoin ==
    /\ pc = "resample"
    /\ nextRow = height
    /\ \A t \in Threads : wrow[t] = << >>
    /\ pc' = "reconstruct"
    /\ hmap' = << >>
    /\ UNCHANGED <<width, height, tmp, holes, passes, ground_level, nextRow,
                   wrow, sampleVars>>

NextResample ==
    \/ Normalize
    \/ \E t \in Threads : ResampleClaim(t)
    \/ \E t \in Threads : ResampleAppend(t)
    \/ ResampleJoin

SpecResample == InitResample /\ [][NextResample]_vars

-----------------------------------------------------------------------------
(* Height map creation as a state machine *)

InitRaster ==
    /\ pc = "raster"
    /\ verts \in Clouds
    /\ Volume(verts) > 0
    /\ todo = verts
    /\ res \in RasterResolutions
    /\ width = GridSize(verts, res, 1)
    /\ height = GridSize(verts, res, 2)
    /\ hmap = [i \in 0..(width * height - 1) |-> lowest]
    /\ tmp = << >>
    /\ holes = FALSE
    /\ passes = 0
    /\ ground_level = FltMax
    /\ nextRow = 0
    /\ wrow = [t \in Threads |-> << >>]
    /\ wq = [t \in Threads |-> << >>]
    /\ fuse = FALSE
    /\ cover = lowest
    /\ sverts = << >>
    /\ snormals = << >>
    /\ MeshIdle

\* part_000:208-218: one iteration of the loop over the vertices. The file
\* lists the points in any order, so any remaining point can be the next.
\* An access past the end of the buffer is undefined: the process dies, or
\* the read and the write miss the height map and the loop goes on.
Rasterize(p) ==
    /\ pc = "raster"
    /\ p \in todo
    /\ todo' = todo \ {p}
    /\ IF Slot(p, verts, res) \in DOMAIN hmap
       THEN /\ hmap' = [hmap EXCEPT ![Slot(p, verts, res)] = Merge(@, p[3])]
            /\ pc' = pc
       ELSE /\ hmap' = hmap
            /\ pc' \in {pc, "crashed"}
    /\ UNCHANGED <<width, height, tmp, holes, passes, ground_level, nextRow, wrow,
                   wq, res, fuse, cover, sverts, snormals, verts, meshVars>>

\* part_000:218-220: the loop over the vertices ends.
RasterEnd ==
    /\ pc = "raster"
    /\ todo = {}
    /\ pc' = "median"
    /\ UNCHANGED <<filterVars, nextRow, wrow, sampleVars>>

NextRaster ==
    \/ \E p \in verts : Rasterize(p)
    \/ RasterEnd

SpecRaster == InitRaster /\ [][NextRaster]_vars

-----------------------------------------------------------------------------
(* normalize_mesh_values as a state machine *)

InitMesh ==
    /\ pc = "load"
    /\ in_mesh \in Names
    /\ arg_meshes \in MeshLists(in_mesh)
    /\ files \in [Names -> PlyFiles]
    /\ meshes_to_load =
        [n \in {arg_meshes[i] : i \in DOMAIN arg_meshes} \cup {in_mesh} |-> NoMesh]
    /\ it = 1
    /\ cerr = ""
    /\ values = << >>
    /\ out_mesh = NoMesh
    /\ width = 0
    /\ height = 0
    /\ hmap = << >>
    /\ tmp = << >>
    /\ holes = FALSE
    /\ passes = 0
    /\ ground_level = FltMax
    /\ nextRow = 0
    /\ wrow = [t \in Threads |-> << >>]
    /\ wq = [t \in Threads |-> << >>]
    /\ res = 4
    /\ fuse = FALSE
    /\ cover = lowest
    /\ sverts = << >>
    /\ snormals = << >>
    /\ verts = {}
    /\ todo = {}

\* Lines 92-107: one iteration of the loading loop.
LoadMesh ==
    /\ pc = "load"
    /\ it <= Len(Keys)
    /\ LET mesh == files[Keys[it]] IN
        IF ~mesh.readable
        THEN /\ cerr' = "Could not load mesh"
             /\ pc' = "exit_failure"
             /\ UNCHANGED <<meshes_to_load, it>>
        ELSE IF HasVertexValues(mesh)
        THEN /\ cerr' = "Mesh has no vertex values"
             /\ pc' = "exit_failure"
             /\ UNCHANGED <<meshes_to_load, it>>
        ELSE /\ meshes_to_load' = [meshes_to_load EXCEPT ![Keys[it]] = mesh]
             /\ it' = it + 1
             /\ UNCHANGED <<pc, cerr>>
    /\ UNCHANGED <<filterVars, nextRow, wrow, wq, res, fuse, cover, sverts, snormals,
                   cloudVars, in_mesh, arg_meshes, files, values, out_mesh>>

\* Lines 109-136: the loading loop is over; gather and sort the values.
GatherValues ==
    /\ pc = "load"
    /\ it > Len(Keys)
    /\ values' = Sort(Gather(arg_meshes, 1))
    /\ pc' = "normalize"
    /\ UNCHANGED <<filterVars, nextRow, wrow, wq, res, fuse, cover, sverts, snormals,
                   cloudVars, in_mesh, arg_meshes, files, meshes_to_load, it, cerr,
                   out_mesh>>

\* Lines 137-183. values[0] and values[values.size() - 1] of an empty vector
\* are undefined: the process dies, or min and max are whatever was read.
NormalizeValues ==
    /\ pc = "normalize"
    /\ LET c == (Len(values) * Eps) \div 2
           mesh_to_normalize == meshes_to_load[in_mesh]
       IN IF values = << >>
          THEN \/ /\ pc' = "crashed"
                  /\ out_mesh' = out_mesh
               \/ /\ pc' = "saved"
                  /\ \E min \in VertexValues, max \in VertexValues :
                        out_mesh' = NormalizedMesh(mesh_to_normalize, min, max)
          ELSE /\ pc' = "saved"
               /\ out_mesh' = NormalizedMesh(mesh_to_normalize, values[c + 1],
                                             values[Len(values) - c])
    /\ UNCHANGED <<filterVars, nextRow, wrow, wq, res, fuse, cover, sverts, snormals,
                   cloudVars, in_mesh, arg_meshes, files, meshes_to_load, it, cerr,
                   values>>

NextMesh == LoadMesh \/ GatherValues \/ NormalizeValues

SpecMesh == InitMesh /\ [][NextMesh]_vars

-----------------------------------------------------------------------------
(* Properties of the filter stages *)

Interior(w, h) == {c \in (0..(w - 1)) \X (0..(h - 1)) : ~IsBorder(w, h, c[1], c[2])}
BorderCells(w, h) == {c \in (0..(w - 1)) \X (0..(h - 1)) : IsBorder(w, h, c[1], c[2])}

\* The parallel for of the running pass has handed out and finished every row.
Joined == pc = "fill" /\ nextRow = height /\ \A t \in Threads : wrow[t] = << >>

\* Rows of the running pass whose x loop has completed.
DoneRows == {y \in 0..(nextRow - 1) : \A t \in Threads : wrow[t] # <<y>>}

\* C1: the hole filling loop is left eventually, for every input grid.
C1_FillLoopTerminates == <>(pc = "resample")

\* C5: in the grid handed on by the median pass and by every hole filling
\* pass, each cell with x in {0, width-1} or y in {0, height-1} holds lowest.
C5_BorderIsSentinel ==
    /\ pc \in {"fill_loop", "fill"} =>
        \A c \in BorderCells(width, height) : At(hmap, width, c[1], c[2]) = lowest
    /\ Joined =>
        \A c \in BorderCells(width, height) : At(tmp, width, c[1], c[2]) = lowest

\* C5 witness: two hole filling passes have completed on a grid that still
\* carries real heights, and a third one has written its output.
C5_Witness ==
    /\ Joined
    /\ passes >= 2
    /\ \E c \in Interior(width, height) : At(tmp, width, c[1], c[2]) # lowest
    /\ \A c \in BorderCells(width, height) : At(tmp, width, c[1], c[2]) = lowest

SentinelInterior(img, w, h) == {c \in Interior(w, h) : At(img, w, c[1], c[2]) = lowest}

\* The grid has exactly one sentinel interior cell, with >= 3 valid neighbours.
IsolatedHole(img, w, h) ==
    /\ Cardinality(SentinelInterior(img, w, h)) = 1
    /\ \A c \in SentinelInterior(img, w, h) :
        Len(ValidNeighbours(img, w, c[1], c[2])) >= 3

Count(s, P(_)) == Cardinality({k \in DOMAIN s : P(s[k])})

\* v is a median of the values of s: an element with at least half of the
\* values <= v and at least half of them >= v.
IsMedianOf(v, s) ==
    /\ \E k \in DOMAIN s : s[k] = v
    /\ 2 * Count(s, LAMBDA e : e <= v) >= Len(s)
    /\ 2 * Count(s, LAMBDA e : e >= v) >= Len(s)

\* C6: a pass over a grid whose only sentinel interior cell is an isolated
\* hole with n >= 3 valid neighbours writes a median of those neighbours to
\* the hole, copies every valid interior cell, and leaves holes false, so
\* that while (holes) runs no further pass.
C6_IsolatedHoleFilledInOnePass ==
    (Joined /\ IsolatedHole(hmap, width, height)) =>
        /\ \A c \in SentinelInterior(hmap, width, height) :
            IsMedianOf(At(tmp, width, c[1], c[2]),
                       ValidNeighbours(hmap, width, c[1], c[2]))
        /\ \A c \in Interior(width, height) \ SentinelInterior(hmap, width, height) :
            At(tmp, width, c[1], c[2]) = At(hmap, width, c[1], c[2])
        /\ holes = FALSE

\* C6 witness: such a pass has run on a hole whose valid neighbours differ.
C6_Witness ==
    /\ Joined
    /\ IsolatedHole(hmap, width, height)
    /\ \E c \in SentinelInterior(hmap, width, height) :
        /\ At(tmp, width, c[1], c[2]) # lowest
        /\ Cardinality({ValidNeighbours(hmap, width, c[1], c[2])[k] :
               k \in DOMAIN ValidNeighbours(hmap, width, c[1], c[2])}) >= 2

\* C10: throughout a pass, under every interleaving of the row workers, the
\* flag is true exactly when a completed row left an interior cell sentinel;
\* at the join it is true iff some interior cell was left sentinel.
C10_FlagIffHoleLeft ==
    pc = "fill" =>
        (holes <=> \E c \in Interior(width, height) :
            c[2] \in DoneRows /\ At(tmp, width, c[1], c[2]) = lowest)

\* C10 witness: a pass ended with the flag set by one row while other rows
\* filled or copied their cells.
C10_Witness ==
    /\ Joined
    /\ holes
    /\ \E c \in Interior(width, height) : At(tmp, width, c[1], c[2]) = lowest
    /\ \E c \in Interior(width, height) :
        c[2] # 1 /\ At(tmp, width, c[1], c[2]) # lowest
-----------------------------------------------------------------------------
(* Properties of the resampling stage *)

Processed(w, h) ==
    {c \in (0..(w - 1)) \X (0..(h - 1)) : ~Skipped(w, h, c[1], c[2])}

\* Every row has been handed out and every thread has left its x loop.
ResampleDone ==
    pc = "resample" /\ nextRow = height /\ \A t \in Threads : wrow[t] = << >>

\* The entries of the sample lists that lie at the planar position of cell c.
Emitted(c) ==
    {k \in DOMAIN sverts :
        sverts[k][1] = Planar(c[1], res) /\ sverts[k][2] = Planar(c[2], res)}

PatchOf(c) == Patch(hmap, width, c[1], c[2])

\* The entries of cell c that lie d below its surface elevation.
EmittedBelow(c, d) ==
    {k \in Emitted(c) : sverts[k][3] = PatchOf(c)[1, 1] + ground_level - d}

\* Cell c has emitted one surface sample and k wall samples, the i-th wall
\* sample i * res below the surface sample.
SurfacePlusWalls(c, k) ==
    /\ Cardinality(Emitted(c)) = k + 1
    /\ Cardinality(EmittedBelow(c, 0)) = 1
    /\ \A i \in 1..k :
        /\ Cardinality(EmittedBelow(c, i * res)) = 1
        /\ \A n \in EmittedBelow(c, i * res) : snormals[n] = Gradient(PatchOf(c))

\* The patch of c has a step of height k * res, k >= kmin, and no bowl.
StepCell(c, kmin) ==
    /\ Magnitude(PatchOf(c)) % res = 0
    /\ Magnitude(PatchOf(c)) \div res >= kmin
    /\ ~Bowl(PatchOf(c))

C3_FlatCellSamples ==
    ResampleDone =>
        /\ \A c \in Processed(width, height) :
            Magnitude(PatchOf(c)) <= res =>
                IF fuse THEN Emitted(c) = {}
                ELSE /\ Cardinality(Emitted(c)) = 1
                     /\ \A k \in Emitted(c) :
                         /\ sverts[k][3] = PatchOf(c)[1, 1] + ground_level
                         /\ snormals[k] = Up
        /\ \A c \in ((0..(width - 1)) \X (0..(height - 1))) \ Processed(width, height) :
            Emitted(c) = {}

\* C3, the elevation: the normalized height plus ground_level is the height
\* the cell held before the normalization.
C3_NormalizeRestores ==
    (pc = "fill_loop" /\ pc' = "resample") =>
        \A c \in Processed(width, height) :
            At(hmap', width, c[1], c[2]) + ground_level' = At(hmap, width, c[1], c[2])

\* C3: flat cells emit one upward sample at the pre-normalization height
\* (none in fuse mode), and cells within two cells of a border emit nothing.
C3_FlatCase == [](C3_FlatCellSamples) /\ [][C3_NormalizeRestores]_vars

\* C3 witness: flat cells have been resampled on a height map whose ground
\* level is not zero.
C3_Witness ==
    /\ ResampleDone
    /\ ~fuse
    /\ ground_level > 0
    /\ \E c \in Processed(width, height) :
        /\ Magnitude(PatchOf(c)) <= res
        /\ PatchOf(c)[1, 1] > 0
        /\ Cardinality(Emitted(c)) = 1

\* C4: a processed cell whose patch satisfies the bowl condition has m < 0,
\* so it is a flat cell and emits no wall sample; no iteration of any wall
\* loop is ever skipped by the bowl test.
C4_BowlEmitsNoWall ==
    pc = "resample" =>
        \A c \in Processed(width, height) :
            /\ BowlSkips(PatchOf(c), c[1], c[2], res, ground_level, fuse, cover) = {}
            /\ Bowl(PatchOf(c)) =>
                /\ Magnitude(PatchOf(c)) < 0
                /\ \A k \in Emitted(c) : snormals[k] = Up

\* C4 witness: a bowl cell has been resampled next to a cell with walls.
C4_Witness ==
    /\ ResampleDone
    /\ ~fuse
    /\ \E c \in Processed(width, height) :
        Bowl(PatchOf(c)) /\ Cardinality(Emitted(c)) = 1
    /\ \E k \in DOMAIN snormals : snormals[k].kind = "gradient"

RECURSIVE SequentialSamples(_)
\* The samples a single thread appends when it runs the rows y.. in order.
SequentialSamples(y) ==
    IF y >= height THEN << >>
    ELSE RowSamples(hmap, width, height, 0, y, res, ground_level, fuse, cover)
         \o SequentialSamples(y + 1)

Paired == [k \in DOMAIN sverts |-> [pos |-> sverts[k], normal |-> snormals[k]]]

Occurrences(s, e) == Cardinality({k \in DOMAIN s : s[k] = e})

\* C9: under every interleaving the two lists have equal length, entry i of
\* both belongs to one sample of the sequential run, and when the loop is
\* done the samples are, as a multiset, those of the sequential run.
C9_AppendsArePaired ==
    pc = "resample" =>
        LET seq == SequentialSamples(0) IN
        /\ Len(sverts) = Len(snormals)
        /\ \A k \in DOMAIN Paired :
            Occurrences(Paired, Paired[k]) <= Occurrences(seq, Paired[k])
        /\ ResampleDone =>
            /\ Len(sverts) = Len(seq)
            /\ \A k \in DOMAIN Paired :
                Occurrences(Paired, Paired[k]) = Occurrences(seq, Paired[k])

\* C9 witness: two threads have appended in an order no sequential run gives.
C9_Witness ==
    /\ ResampleDone
    /\ Len(sverts) >= 4
    /\ Paired # SequentialSamples(0)
    /\ \E k \in DOMAIN snormals : snormals[k].kind = "gradient"

-----------------------------------------------------------------------------
(* Properties of the height map creation *)

\* The points already rasterized whose access addresses element i.
BinnedTo(i) == {p \in verts \ todo : Slot(p, verts, res) = i}

\* C7: whatever the order of the points, each cell of the grid holds the
\* maximum height of the points rasterized so far whose hmap->at(x, y, 0)
\* addresses it, and lowest if there is none.
C7_CellHoldsMaximum ==
    pc \in {"raster", "median"} =>
        \A i \in DOMAIN hmap :
            hmap[i] = MaxOf({p[3] : p \in BinnedTo(i)} \cup {lowest})

\* C7 witness: the whole cloud is rasterized and two points of different
\* heights went to one cell.
C7_Witness ==
    /\ pc = "median"
    /\ \E i \in DOMAIN hmap : \E p \in BinnedTo(i), q \in BinnedTo(i) :
        p[3] < q[3] /\ hmap[i] = q[3]

\* int x and int y of part_000:211-212 for point p of the cloud.
CellX(p) == CellIndex(p[1] - AabbMin(verts, 1), res)
CellY(p) == CellIndex(p[2] - AabbMin(verts, 2), res)

\* C11: for every point the height map loop has taken, the computed indices
\* satisfy 0 <= x < width and 0 <= y < height, so that no access of the loop
\* falls outside the allocated grid.
C11_IndexInsideGrid ==
    pc \in {"raster", "median", "crashed"} =>
        \A p \in verts \ todo :
            /\ 0 <= CellX(p) /\ CellX(p) < width
            /\ 0 <= CellY(p) /\ CellY(p) < height

-----------------------------------------------------------------------------
(* Properties of normalize_mesh_values *)

\* The mesh the loading loop is looking at.
CurrentMesh == files[Keys[it]]

\* C8: a loaded mesh is rejected with "Mesh has no vertex values" only if it
\* has no vertex values, and every mesh the loading loop has accepted has
\* vertex values.
C8_RejectsExactlyValueless ==
    /\ (pc = "exit_failure" /\ cerr = "Mesh has no vertex values")
            => ~HasVertexValues(CurrentMesh)
    /\ \A n \in DOMAIN meshes_to_load :
            meshes_to_load[n].readable => HasVertexValues(meshes_to_load[n])


=============================================================================
